---------------------------- MODULE Spec2Model ----------------------------
(***************************************************************************)
(* The question-to-answer pipeline of the e-commerce data agent:           *)
(* llm.py (get_llm_response), agent.py (AIAgent) and sql.py                *)
(* (execute_query, initialize_database).                                   *)
(*                                                                         *)
(* Text is modelled as a sequence of one-character strings, so that        *)
(* str.strip, str.upper, str.startswith, str.join and str() are computed   *)
(* the way Python computes them.                                           *)
(***************************************************************************)
EXTENDS Integers, Sequences, FiniteSets, TLC

\* Largest number of rows a table of the model holds (INSERT is not taken
\* beyond it).
MaxRows == 2

(***************************************************************************)
(* Python string operations                                                *)
(***************************************************************************)

\* The characters str.strip() removes.
Whitespace == {" ", "\t", "\n", "\r"}

Lowers ==
    <<"a","b","c","d","e","f","g","h","i","j","k","l","m",
      "n","o","p","q","r","s","t","u","v","w","x","y","z">>

Uppers ==
    <<"A","B","C","D","E","F","G","H","I","J","K","L","M",
      "N","O","P","Q","R","S","T","U","V","W","X","Y","Z">>

\* The upper-case form of each lower-case letter
LowerToUpper ==
    [c \in {Lowers[i] : i \in 1..Len(Lowers)} |->
        Uppers[CHOOSE i \in 1..Len(Lowers) : Lowers[i] = c]]

UpperChar(c) == IF c \in DOMAIN LowerToUpper THEN LowerToUpper[c] ELSE c

\* str.upper()
Upper(s) == [i \in 1..Len(s) |-> UpperChar(s[i])]

RECURSIVE LStrip(_)
LStrip(s) ==
    IF s # <<>> /\ Head(s) \in Whitespace THEN LStrip(Tail(s)) ELSE s

RECURSIVE RStrip(_)
RStrip(s) ==
    IF s # <<>> /\ s[Len(s)] \in Whitespace
    THEN RStrip(SubSeq(s, 1, Len(s) - 1))
    ELSE s

\* str.strip()
Strip(s) == RStrip(LStrip(s))

\* str.startswith(prefix)
StartsWith(s, prefix) ==
    Len(s) >= Len(prefix) /\ SubSeq(s, 1, Len(prefix)) = prefix

\* sep.join(parts)
RECURSIVE Join(_, _)
Join(sep, parts) ==
    IF parts = <<>> THEN <<>>
    ELSE IF Len(parts) = 1 THEN parts[1]
    ELSE parts[1] \o sep \o Join(sep, Tail(parts))

\* ch * n
RECURSIVE Repeat(_, _)
Repeat(ch, n) == IF n <= 0 THEN <<>> ELSE <<ch>> \o Repeat(ch, n - 1)

\* The backquote character (written as a token: the TLA+ lexer does not take
\* a backquote inside a string).
BQ == "<backquote>"

\* A lone UTF-16 surrogate code point, which a Python str can hold and UTF-8
\* cannot encode.
SURROGATE == "<U+D800>"

Digits == <<"0","1","2","3","4","5","6","7","8","9">>

RECURSIVE NatToStr(_)
NatToStr(n) ==
    IF n < 10 THEN <<Digits[n + 1]>>
    ELSE NatToStr(n \div 10) \o <<Digits[(n % 10) + 1]>>

\* str(n) of an int
IntToStr(n) == IF n < 0 THEN <<"-">> \o NatToStr(0 - n) ELSE NatToStr(n)

(***************************************************************************)
(* String literals of the source                                           *)
(***************************************************************************)

\* "N/A"
T_NA ==
    <<"N","/","A">>

\* "Error: Failed to get response from Gemini API: "
T_ErrorPrefix ==
    <<"E","r","r","o","r",":"," ","F","a","i","l","e","d"," ","t","o"," ","g","e","t",
      " ","r","e","s","p","o","n","s","e"," ","f","r","o","m"," ","G","e","m","i","n",
      "i"," ","A","P","I",":"," ">>

\* "I'm sorry, I couldn't generate a valid SQL query for that question based on the available data."
T_Apology ==
    <<"I","'","m"," ","s","o","r","r","y",","," ","I"," ","c","o","u","l","d","n","'",
      "t"," ","g","e","n","e","r","a","t","e"," ","a"," ","v","a","l","i","d"," ","S",
      "Q","L"," ","q","u","e","r","y"," ","f","o","r"," ","t","h","a","t"," ","q","u",
      "e","s","t","i","o","n"," ","b","a","s","e","d"," ","o","n"," ","t","h","e"," ",
      "a","v","a","i","l","a","b","l","e"," ","d","a","t","a",".">>

\* "Thinking...\n"
T_Thinking ==
    <<"T","h","i","n","k","i","n","g",".",".",".","\n">>

\* "Generated SQL query: <backquote>"
T_GeneratedPrefix ==
    <<"G","e","n","e","r","a","t","e","d"," ","S","Q","L"," ","q","u","e","r","y",":",
      " ",BQ>>

\* "<backquote>\n"
T_GeneratedSuffix ==
    <<BQ,"\n">>

\* "Fetching data...\n"
T_Fetching ==
    <<"F","e","t","c","h","i","n","g"," ","d","a","t","a",".",".",".","\n">>

\* "Process complete."
T_Complete ==
    <<"P","r","o","c","e","s","s"," ","c","o","m","p","l","e","t","e",".">>

\* "I encountered an error while fetching data: "
T_FetchError ==
    <<"I"," ","e","n","c","o","u","n","t","e","r","e","d"," ","a","n"," ","e","r","r",
      "o","r"," ","w","h","i","l","e"," ","f","e","t","c","h","i","n","g"," ","d","a",
      "t","a",":"," ">>

\* "I couldn't find any results for your question: '"
T_NoResultsPrefix ==
    <<"I"," ","c","o","u","l","d","n","'","t"," ","f","i","n","d"," ","a","n","y"," ",
      "r","e","s","u","l","t","s"," ","f","o","r"," ","y","o","u","r"," ","q","u","e",
      "s","t","i","o","n",":"," ","'">>

\* "'."
T_NoResultsSuffix ==
    <<"'",".">>

\* "Here are the results for '"
T_HerePrefix ==
    <<"H","e","r","e"," ","a","r","e"," ","t","h","e"," ","r","e","s","u","l","t","s",
      " ","f","o","r"," ","'">>

\* "':\n"
T_HereSuffix ==
    <<"'",":","\n">>

\* "Query executed successfully."
T_Executed ==
    <<"Q","u","e","r","y"," ","e","x","e","c","u","t","e","d"," ","s","u","c","c","e",
      "s","s","f","u","l","l","y",".">>

\* "Database connection failed."
T_ConnFailed ==
    <<"D","a","t","a","b","a","s","e"," ","c","o","n","n","e","c","t","i","o","n"," ",
      "f","a","i","l","e","d",".">>

\* " | "
T_Sep ==
    <<" ","|"," ">>

\* "\n"
T_Newline ==
    <<"\n">>

\* "None"
T_None ==
    <<"N","o","n","e">>

SqlVerbs ==
    { <<"S","E","L","E","C","T">>, <<"I","N","S","E","R","T">>,
      <<"U","P","D","A","T","E">>, <<"D","E","L","E","T","E">> }

T_SELECT == <<"S","E","L","E","C","T">>


(***************************************************************************)
(* Column names, questions and SQL texts used as inputs                    *)
(***************************************************************************)

\* "eligibility_datetime_utc"
C_eligibility_datetime_utc ==
    <<"e","l","i","g","i","b","i","l","i","t","y","_","d","a","t","e","t","i","m","e",
      "_","u","t","c">>

\* "item_id"
C_item_id ==
    <<"i","t","e","m","_","i","d">>

\* "eligibility"
C_eligibility ==
    <<"e","l","i","g","i","b","i","l","i","t","y">>

\* "message"
C_message ==
    <<"m","e","s","s","a","g","e">>

\* "a"
C_a ==
    <<"a">>

\* "b"
C_b ==
    <<"b">>

\* "x"
C_x ==
    <<"x">>

\* "random()"
C_random ==
    <<"r","a","n","d","o","m","(",")">>

\* "foo"
Q_foo ==
    <<"f","o","o">>

\* "items?"
Q_items ==
    <<"i","t","e","m","s","?">>

\* "SELECT item_id, message FROM product_eligibility"
S_Select ==
    <<"S","E","L","E","C","T"," ","i","t","e","m","_","i","d",","," ","m","e","s","s",
      "a","g","e"," ","F","R","O","M"," ","p","r","o","d","u","c","t","_","e","l","i",
      "g","i","b","i","l","i","t","y">>

\* "  select item_id, message from product_eligibility\n"
S_SelectLower ==
    <<" "," ","s","e","l","e","c","t"," ","i","t","e","m","_","i","d",","," ","m","e",
      "s","s","a","g","e"," ","f","r","o","m"," ","p","r","o","d","u","c","t","_","e",
      "l","i","g","i","b","i","l","i","t","y","\n">>

\* "INSERT INTO product_eligibility (item_id, eligibility) VALUES (1, 1)"
S_Insert ==
    <<"I","N","S","E","R","T"," ","I","N","T","O"," ","p","r","o","d","u","c","t","_",
      "e","l","i","g","i","b","i","l","i","t","y"," ","(","i","t","e","m","_","i","d",
      ","," ","e","l","i","g","i","b","i","l","i","t","y",")"," ","V","A","L","U","E",
      "S"," ","(","1",","," ","1",")">>

\* "Update product_eligibility SET item_id = 7"
S_Update ==
    <<"U","p","d","a","t","e"," ","p","r","o","d","u","c","t","_","e","l","i","g","i",
      "b","i","l","i","t","y"," ","S","E","T"," ","i","t","e","m","_","i","d"," ","=",
      " ","7">>

\* "DELETE FROM product_eligibility"
S_Delete ==
    <<"D","E","L","E","T","E"," ","F","R","O","M"," ","p","r","o","d","u","c","t","_",
      "e","l","i","g","i","b","i","l","i","t","y">>

\* "SELECT FROM"
S_SyntaxError ==
    <<"S","E","L","E","C","T"," ","F","R","O","M">>

\* "SELECT * FROM orders"
S_MissingTable ==
    <<"S","E","L","E","C","T"," ","*"," ","F","R","O","M"," ","o","r","d","e","r","s">>

\* "SELECT 1; SELECT 2"
S_TwoStatements ==
    <<"S","E","L","E","C","T"," ","1",";"," ","S","E","L","E","C","T"," ","2">>

\* "DROP TABLE product_ad_sales"
S_Drop ==
    <<"D","R","O","P"," ","T","A","B","L","E"," ","p","r","o","d","u","c","t","_","a",
      "d","_","s","a","l","e","s">>

\* "SELECT random()"
S_SelectRandom ==
    <<"S","E","L","E","C","T"," ","r","a","n","d","o","m","(",")">>

\* "INSERT INTO product_eligibility (item_id) VALUES (5), (abs(-9223372036854775808))"
S_InsertOverflow ==
    <<"I","N","S","E","R","T"," ","I","N","T","O"," ","p","r","o","d","u","c","t","_",
      "e","l","i","g","i","b","i","l","i","t","y"," ","(","i","t","e","m","_","i","d",
      ")"," ","V","A","L","U","E","S"," ","(","5",")",","," ","(","a","b","s","(","-",
      "9","2","2","3","3","7","2","0","3","6","8","5","4","7","7","5","8","0","8",")",
      ")">>

\* "SELECT '\ud800'"
S_Surrogate ==
    <<"S","E","L","E","C","T"," ","'",SURROGATE,"'">>

\* "<backquote><backquote><backquote>sql\nSELECT 1\n<backquote><backquote><backquote>"
S_Fenced ==
    <<BQ,BQ,BQ,"s","q","l","\n","S","E","L","E","C","T"," ","1","\n",BQ,BQ,BQ>>

\* " N/A\n"
S_NotAnswerable ==
    <<" ","N","/","A","\n">>

\* "429 quota exceeded"
E_Quota ==
    <<"4","2","9"," ","q","u","o","t","a"," ","e","x","c","e","e","d","e","d">>

\* "near \"FROM\": syntax error"
M_NearFrom ==
    <<"n","e","a","r"," ","\"","F","R","O","M","\"",":"," ","s","y","n","t","a","x",
      " ","e","r","r","o","r">>

\* "no such table: "
M_NoSuchTable ==
    <<"n","o"," ","s","u","c","h"," ","t","a","b","l","e",":"," ">>

\* "You can only execute one statement at a time."
M_OneStatement ==
    <<"Y","o","u"," ","c","a","n"," ","o","n","l","y"," ","e","x","e","c","u","t","e",
      " ","o","n","e"," ","s","t","a","t","e","m","e","n","t"," ","a","t"," ","a"," ",
      "t","i","m","e",".">>

\* "syntax error"
M_SyntaxError ==
    <<"s","y","n","t","a","x"," ","e","r","r","o","r">>

\* "integer overflow"
M_IntegerOverflow ==
    <<"i","n","t","e","g","e","r"," ","o","v","e","r","f","l","o","w">>

\* "orders"
M_orders ==
    <<"o","r","d","e","r","s">>

\* "product_eligibility"
M_product_eligibility ==
    <<"p","r","o","d","u","c","t","_","e","l","i","g","i","b","i","l","i","t","y">>

\* "product_ad_sales"
M_product_ad_sales ==
    <<"p","r","o","d","u","c","t","_","a","d","_","s","a","l","e","s">>

\* "ok"
V_ok ==
    <<"o","k">>

\* "boom"
V_boom ==
    <<"b","o","o","m">>

(***************************************************************************)
(* Values of a result row, and str() of them                               *)
(***************************************************************************)

IntV(n) == [t |-> "int", v |-> <<n>>]

NullV == [t |-> "null", v |-> <<>>]

TextV(s) == [t |-> "text", v |-> s]

\* str(value): an int in decimal, None as "None", a str as itself
PyStr(val) ==
    CASE val.t = "int" -> IntToStr(val.v[1])
      [] val.t = "null" -> T_None
      [] val.t = "text" -> val.v


(***************************************************************************)
(* llm.py: the Gateway                                                     *)
(***************************************************************************)

\* What model.generate_content(...) does in one call: it hands back a text, or
\* it raises (transport, authentication, quota) with the text of the exception.
ApiOutcomes ==
    { [kind |-> "text", text |-> t] :
        t \in { S_NotAnswerable, S_Select, S_SelectLower, S_Insert, S_Update,
                S_Delete, S_SyntaxError, S_MissingTable, S_TwoStatements,
                S_Drop, S_Fenced } }
    \cup { [kind |-> "raise", text |-> E_Quota] }

\* get_llm_response: response.text.strip(), or the error sentinel when anything
\* in the call raised.  It never raises itself.
get_llm_response(api) ==
    IF api.kind = "text"
    THEN [kind |-> "return", text |-> Strip(api.text)]
    ELSE [kind |-> "return", text |-> T_ErrorPrefix \o api.text]

(***************************************************************************)
(* agent.py: the Synthesizer                                               *)
(***************************************************************************)

\* Mutant of LooksLikeSql: the check without .upper()
LooksLikeSql_CaseSensitive(sql_query) ==
    \E verb \in SqlVerbs : StartsWith(Strip(sql_query), verb)

\* Mutant of LooksLikeSql: the check is missing, any text is taken as a query
LooksLikeSql_Anything(sql_query) == TRUE

\* sql_query.strip().upper().startswith(("SELECT", "INSERT", "UPDATE", "DELETE"))
LooksLikeSql(sql_query) ==
    LET text == Upper(Strip(sql_query))
    IN  \E verb \in SqlVerbs : StartsWith(text, verb)

\* AIAgent._generate_sql_query, given what the call of get_llm_response did.
\* "N/A" is the 'no query producible' outcome.
generate_sql_query(response) ==
    IF response.kind = "raise" THEN T_NA
    ELSE IF ~LooksLikeSql(response.text) THEN T_NA
    ELSE Strip(response.text)

(***************************************************************************)
(* agent.py: the Formatter                                                 *)
(***************************************************************************)

\* [str(row.get(col, 'N/A')) for col in columns]
RowValues(row, columns) ==
    [i \in 1..Len(columns) |->
        IF columns[i] \in DOMAIN row THEN PyStr(row[columns[i]]) ELSE T_NA]

\* Mutant of ResponseParts: the separator line is not appended
ResponseParts_NoSeparator(columns, rows, original_question) ==
    << T_HerePrefix \o original_question \o T_HereSuffix,
       Join(T_Sep, columns) >>
    \o [i \in 1..Len(rows) |-> Join(T_Sep, RowValues(rows[i], columns))]

\* response_parts of AIAgent._format_response for a result with rows
ResponseParts(columns, rows, original_question) ==
    LET header_row == Join(T_Sep, columns)
    IN  << T_HerePrefix \o original_question \o T_HereSuffix,
           header_row,
           Repeat("-", Len(header_row)) >>
        \o [i \in 1..Len(rows) |-> Join(T_Sep, RowValues(rows[i], columns))]

\* Mutant of FormatError: the message of the failure is left out
FormatError_NoMessage(message) == T_FetchError

\* The error branch of AIAgent._format_response
FormatError(message) == T_FetchError \o message

\* AIAgent._format_response.  query_result is the dict execute_query returns:
\* a record whose fields are the dict's keys.
format_response(query_result, original_question) ==
    IF "error" \in DOMAIN query_result
    THEN FormatError(query_result.error)
    ELSE IF "message" \in DOMAIN query_result
    THEN query_result.message
    ELSE LET columns == IF "columns" \in DOMAIN query_result
                        THEN query_result.columns ELSE <<>>
             rows == IF "rows" \in DOMAIN query_result
                     THEN query_result.rows ELSE <<>>
         IN  IF rows = <<>>
             THEN T_NoResultsPrefix \o original_question \o T_NoResultsSuffix
             ELSE Join(T_Newline, ResponseParts(columns, rows, original_question))


(***************************************************************************)
(* sql.py: the store                                                       *)
(*                                                                         *)
(* A store is what the database file holds: schema maps each table that    *)
(* exists to its columns, rows maps it to its rows.  Inside the store a    *)
(* table or column name is an atom; ColumnText gives the Python str the    *)
(* driver reports for it.                                                  *)
(***************************************************************************)

\* The three CREATE TABLE IF NOT EXISTS statements of create_tables
TableColumns ==
    [ product_eligibility |->
        << [name |-> "eligibility_datetime_utc", type |-> "TEXT"],
           [name |-> "item_id", type |-> "INTEGER"],
           [name |-> "eligibility", type |-> "BOOLEAN"],
           [name |-> "message", type |-> "TEXT"] >>,
      product_total_sales |->
        << [name |-> "date", type |-> "TEXT"],
           [name |-> "item_id", type |-> "INTEGER"],
           [name |-> "total_sales", type |-> "REAL"],
           [name |-> "total_units_ordered", type |-> "INTEGER"] >>,
      product_ad_sales |->
        << [name |-> "date", type |-> "TEXT"],
           [name |-> "item_id", type |-> "INTEGER"],
           [name |-> "ad_sales", type |-> "REAL"],
           [name |-> "impressions", type |-> "INTEGER"],
           [name |-> "ad_spend", type |-> "REAL"],
           [name |-> "clicks", type |-> "INTEGER"],
           [name |-> "units_sold", type |-> "INTEGER"] >> ]

TableNames == DOMAIN TableColumns

\* A database file in which no table has been created yet
EmptyStore == [schema |-> [t \in {} |-> <<>>], rows |-> [t \in {} |-> <<>>]]

\* create_tables: each table is created only if it does not exist; then commit
create_tables(store) ==
    [schema |-> [t \in TableNames |->
                    IF t \in DOMAIN store.schema THEN store.schema[t]
                    ELSE TableColumns[t]],
     rows |-> [t \in TableNames |->
                    IF t \in DOMAIN store.rows THEN store.rows[t] ELSE <<>>]]

\* A row of product_eligibility as the import of the CSV export leaves it
SampleRow ==
    [eligibility_datetime_utc |-> NullV, item_id |-> IntV(29),
     eligibility |-> IntV(0), message |-> TextV(V_ok)]

\* The store after `python sql.py` has created and populated it
PopulatedStore ==
    [schema |-> TableColumns,
     rows |-> [t \in TableNames |->
                 IF t = "product_eligibility" THEN <<SampleRow>> ELSE <<>>]]

\* The Python str of a column name, as cursor.description reports it
ColumnText(name) ==
    CASE name = "eligibility_datetime_utc" -> C_eligibility_datetime_utc
      [] name = "item_id" -> C_item_id
      [] name = "eligibility" -> C_eligibility
      [] name = "message" -> C_message

\* The Python str of a table name, as it appears in the engine's messages
TableText(name) ==
    CASE name = "orders" -> M_orders
      [] name = "product_eligibility" -> M_product_eligibility
      [] name = "product_ad_sales" -> M_product_ad_sales

\* The texts of the statements the engine of the model understands, with
\* letter case ignored
N_Select == Upper(S_Select)

N_MissingTable == Upper(S_MissingTable)

N_Insert == Upper(S_Insert)

N_Update == Upper(S_Update)

N_Delete == Upper(S_Delete)

N_Drop == Upper(S_Drop)

N_TwoStatements == Upper(S_TwoStatements)

N_SyntaxError == Upper(S_SyntaxError)

N_SelectRandom == Upper(S_SelectRandom)

N_InsertOverflow == Upper(S_InsertOverflow)

\* The statements the engine of the model understands, by their text with
\* surrounding whitespace and letter case ignored; any other text is a syntax
\* error.
Parse(sql) ==
    LET n == Upper(Strip(sql))
    IN  CASE n = N_Select ->
               [kind |-> "select", table |-> "product_eligibility",
                cols |-> <<"item_id", "message">>]
          [] n = N_MissingTable ->
               [kind |-> "select", table |-> "orders", cols |-> <<>>]
          [] n = N_Insert ->
               [kind |-> "insert", table |-> "product_eligibility", cols |-> <<>>]
          [] n = N_Update ->
               [kind |-> "update", table |-> "product_eligibility", cols |-> <<>>]
          [] n = N_Delete ->
               [kind |-> "delete", table |-> "product_eligibility", cols |-> <<>>]
          [] n = N_Drop ->
               [kind |-> "drop", table |-> "product_ad_sales", cols |-> <<>>]
          [] n = N_TwoStatements ->
               [kind |-> "two", table |-> "", cols |-> <<>>]
          [] n = N_InsertOverflow ->
               [kind |-> "overflow", table |-> "product_eligibility",
                cols |-> <<>>]
          [] n = N_SelectRandom ->
               [kind |-> "random", table |-> "", cols |-> <<>>]
          [] n = N_SyntaxError ->
               [kind |-> "syntax", table |-> "", cols |-> <<>>]
          [] OTHER ->
               [kind |-> "unknown", table |-> "", cols |-> <<>>]

\* The row that S_Insert adds: the columns it does not name are NULL
InsertedRow ==
    [eligibility_datetime_utc |-> NullV, item_id |-> IntV(1),
     eligibility |-> IntV(1), message |-> NullV]

\* What cursor.execute(sql) did
Executed(description, fetched, store, in_txn) ==
    [kind |-> "ok", description |-> description, fetched |-> fetched,
     store |-> store, in_txn |-> in_txn, msg |-> <<>>, exc |-> ""]

\* cursor.execute raised a subclass of sqlite3.Error with this text
DriverError(msg, store) ==
    [kind |-> "error", description |-> <<>>, fetched |-> <<>>,
     store |-> store, in_txn |-> FALSE, msg |-> msg, exc |-> "sqlite3.Error"]

\* cursor.execute raised a subclass of sqlite3.Error while the engine was
\* running a statement for which the driver had begun a transaction: the
\* engine has undone what the statement did so far, the transaction is open
DriverErrorInTransaction(msg, store) ==
    [kind |-> "error", description |-> <<>>, fetched |-> <<>>,
     store |-> store, in_txn |-> TRUE, msg |-> msg, exc |-> "sqlite3.Error"]

\* cursor.execute raised an exception that is not a sqlite3.Error
DriverException(exc, store) ==
    [kind |-> "exception", description |-> <<>>, fetched |-> <<>>,
     store |-> store, in_txn |-> FALSE, msg |-> <<>>, exc |-> exc]

\* The engine's error for a table that does not exist
NoSuchTable(table, store) ==
    DriverError(M_NoSuchTable \o TableText(table), store)

\* The store with the rows of one table replaced
WithRows(store, table, rows) ==
    [store EXCEPT !.rows = [store.rows EXCEPT ![table] = rows]]

\* The store with one table dropped
WithoutTable(store, table) ==
    [schema |-> [t \in DOMAIN store.schema \ {table} |-> store.schema[t]],
     rows |-> [t \in DOMAIN store.rows \ {table} |-> store.rows[t]]]

\* The engine running one parsed statement on a fresh connection to the store,
\* in the driver's default transaction mode: INSERT, UPDATE and DELETE open a
\* transaction that stays open (in_txn) until commit; every other statement
\* takes effect at once.  old_driver: a driver that reports a second
\* statement as sqlite3.Warning, which is not a sqlite3.Error (newer ones
\* raise sqlite3.ProgrammingError).  draw: what the engine's random() yields
\* in this execution.
Run(ast, store, old_driver, draw) ==
    CASE ast.kind = "two" ->
           IF old_driver THEN DriverException("sqlite3.Warning", store)
           ELSE DriverError(M_OneStatement, store)
      [] ast.kind = "syntax" -> DriverError(M_NearFrom, store)
      [] ast.kind = "unknown" -> DriverError(M_SyntaxError, store)
      [] ast.kind = "random" ->
           Executed(<<C_random>>, << <<IntV(draw)>> >>, store, FALSE)
      [] ast.table \notin DOMAIN store.schema -> NoSuchTable(ast.table, store)
      [] ast.kind = "select" ->
           Executed([i \in 1..Len(ast.cols) |-> ColumnText(ast.cols[i])],
                    [r \in 1..Len(store.rows[ast.table]) |->
                        [i \in 1..Len(ast.cols) |->
                            store.rows[ast.table][r][ast.cols[i]]]],
                    store, FALSE)
      [] ast.kind = "insert" ->
           Executed(<<>>, <<>>,
                    WithRows(store, ast.table,
                             Append(store.rows[ast.table], InsertedRow)),
                    TRUE)
      [] ast.kind = "update" ->
           Executed(<<>>, <<>>,
                    WithRows(store, ast.table,
                             [r \in 1..Len(store.rows[ast.table]) |->
                                 [store.rows[ast.table][r]
                                     EXCEPT !.item_id = IntV(7)]]),
                    TRUE)
      [] ast.kind = "delete" ->
           Executed(<<>>, <<>>, WithRows(store, ast.table, <<>>), TRUE)
      [] ast.kind = "drop" ->
           Executed(<<>>, <<>>, WithoutTable(store, ast.table), FALSE)
      [] ast.kind = "overflow" ->
           DriverErrorInTransaction(M_IntegerOverflow, store)

\* cursor.execute(sql_query): a text UTF-8 cannot encode never reaches the
\* engine
cursor_execute(sql_query, store, old_driver, draw) ==
    IF \E i \in 1..Len(sql_query) : sql_query[i] = SURROGATE
    THEN DriverException("UnicodeEncodeError", store)
    ELSE Run(Parse(sql_query), store, old_driver, draw)

\* sql_query.strip().upper().startswith("SELECT")
IsSelect(sql_query) == StartsWith(Upper(Strip(sql_query)), T_SELECT)

\* dict(row): the column names of the description as keys (for a repeated
\* name the last value stays)
RowDict(description, row) ==
    [c \in {description[i] : i \in 1..Len(description)} |->
        row[CHOOSE i \in 1..Len(description) :
              /\ description[i] = c
              /\ \A j \in (i + 1)..Len(description) : description[j] # c]]

\* conn.close() with no commit: an open transaction is rolled back
CloseUncommitted(r, store) == IF r.in_txn THEN store ELSE r.store

\* Mutant of Commit: conn.commit() is not called before conn.close()
Commit_Forgotten(r, store) == CloseUncommitted(r, store)

\* conn.commit(): what the statement did becomes the content of the file
Commit(r, store) == r.store

\* The value a dict-returning call has when it returned nothing
NoResult == [unset |-> TRUE]

Returned(value, store) ==
    [kind |-> "return", value |-> value, exc |-> "", store |-> store]

Raised(exc, store) ==
    [kind |-> "raise", value |-> NoResult, exc |-> exc, store |-> store]

\* The Rows branch of execute_query
RowsResult(r) ==
    [columns |-> r.description,
     rows |-> [i \in 1..Len(r.fetched) |-> RowDict(r.description, r.fetched[i])]]

\* The except clause of execute_query: sqlite3.Error is caught and returned as
\* {"error": str(e)}; any other exception propagates to the caller.
ExceptClause(r, store) ==
    IF r.kind = "error"
    THEN Returned([error |-> r.msg], CloseUncommitted(r, store))
    ELSE Raised(r.exc, CloseUncommitted(r, store))

\* Mutant of AfterExecute: reading consumes, the Rows branch leaves the tables
\* without rows
AfterExecute_ReadOnce(r, sql_query, store) ==
    IF r.kind # "ok" THEN ExceptClause(r, store)
    ELSE IF IsSelect(sql_query)
    THEN Returned(RowsResult(r),
                  [store EXCEPT !.rows = [t \in DOMAIN store.rows |-> <<>>]])
    ELSE Returned([message |-> T_Executed], Commit(r, store))

\* execute_query from the return of cursor.execute (r) on
AfterExecute(r, sql_query, store) ==
    IF r.kind # "ok" THEN ExceptClause(r, store)
    ELSE IF IsSelect(sql_query)
    THEN Returned(RowsResult(r), CloseUncommitted(r, store))
    ELSE Returned([message |-> T_Executed], Commit(r, store))

\* Mutant of ConnectionCalls: conn.close() stands at the end of the try body
\* instead of in a finally clause, and an exception skips it
ConnectionCalls_NoFinally(r, sql_query) ==
    << "connect", "cursor", "execute" >>
        \o (IF r.kind # "ok" THEN <<>>
            ELSE IF IsSelect(sql_query) THEN << "fetchall", "close" >>
            ELSE << "commit", "close" >>)

\* Mutant of ConnectionCalls: conn.commit() stands in the finally clause
ConnectionCalls_CommitInFinally(r, sql_query) ==
    << "connect", "cursor", "execute" >>
        \o (IF r.kind = "ok" /\ IsSelect(sql_query) THEN << "fetchall" >>
            ELSE <<>>)
        \o << "commit", "close" >>

\* The calls execute_query makes on the connection that get_db_connection
\* opened for it, given what cursor.execute did (r): fetchall on the Rows
\* branch, commit on the other, neither when cursor.execute raised, and close
\* in the finally clause on every path.
ConnectionCalls(r, sql_query) ==
    << "connect", "cursor", "execute" >>
        \o (IF r.kind # "ok" THEN <<>>
            ELSE IF IsSelect(sql_query) THEN << "fetchall" >>
            ELSE << "commit" >>)
        \o << "close" >>

\* The body of "if conn:" in execute_query, from the return of cursor.execute
\* (r) on: what the call returns or raises, the store afterwards, and the
\* calls it made on the connection
WithConnection(r, sql_query, store) ==
    AfterExecute(r, sql_query, store)
        @@ [calls |-> ConnectionCalls(r, sql_query)]

\* execute_query.  connects: whether sqlite3.connect succeeds (get_db_connection
\* returns None when it raises sqlite3.Error).  The result carries the dict
\* returned (or the exception that left the function), the store afterwards
\* and the calls made on the connection (none when there is no connection).
execute_query(sql_query, store, connects, old_driver, draw) ==
    IF ~connects
    THEN Returned([error |-> T_ConnFailed], store) @@ [calls |-> <<>>]
    ELSE WithConnection(cursor_execute(sql_query, store, old_driver, draw),
                        sql_query, store)

\* initialize_database.  creates: whether create_tables runs without a
\* sqlite3.Error.  With no connection nothing is done and nothing is raised.
initialize_database(store, connects, creates) ==
    IF ~connects THEN Returned(NoResult, store)
    ELSE IF ~creates THEN Raised("sqlite3.Error", store)
    ELSE Returned(NoResult, create_tables(store))

\* The statement stays within the bound of the model
InBounds(sql_query, store) ==
    \A ast \in {Parse(sql_query)} :
        (ast.kind = "insert" /\ ast.table \in DOMAIN store.rows)
            => Len(store.rows[ast.table]) < MaxRows


(***************************************************************************)
(* agent.py: the Orchestrator                                              *)
(***************************************************************************)

Questions == {Q_foo, Q_items}

\* What a call returned (value) or the exception that left it (exc)
Ret(text) == [kind |-> "return", value |-> text, exc |-> ""]

Exc(exc) == [kind |-> "raise", value |-> <<>>, exc |-> exc]

NoAnswer == [kind |-> "none", value |-> <<>>, exc |-> ""]

\* process_question when no query was synthesized
Apologize(api, sql) ==
    [gw_log |-> <<api>>, sql_query |-> sql, exec_log |-> <<>>,
     conn_log |-> <<>>,
     query_result |-> NoResult, answer |-> Ret(T_Apology)]

\* process_question from the return of execute_query (e) on
Respond(q, api, sql, e) ==
    [gw_log |-> <<api>>, sql_query |-> sql, exec_log |-> <<sql>>,
     conn_log |-> e.calls,
     query_result |-> e.value,
     answer |-> IF e.kind = "raise" THEN Exc(e.exc)
                ELSE Ret(format_response(e.value, q))]

\* Mutant of Orchestrate: the "N/A" test is missing, the text is executed
Orchestrate_NoCheck(q, api, sql, store, connects, old_driver, draw) ==
    [run |-> Respond(q, api, sql,
                     execute_query(sql, store, connects, old_driver, draw)),
     store |-> execute_query(sql, store, connects, old_driver, draw).store]

\* Mutant of Orchestrate: the Gateway is asked a second time when no query
\* was synthesized
Orchestrate_Retry(q, api, sql, store, connects, old_driver, draw) ==
    IF sql = T_NA
    THEN [run |-> [Apologize(api, sql) EXCEPT !.gw_log = <<api, api>>],
          store |-> store]
    ELSE [run |-> Respond(q, api, sql,
                          execute_query(sql, store, connects, old_driver, draw)),
          store |-> execute_query(sql, store, connects, old_driver, draw).store]

\* process_question from the return of _generate_sql_query (sql) on
Orchestrate(q, api, sql, store, connects, old_driver, draw) ==
    IF sql = T_NA
    THEN [run |-> Apologize(api, sql), store |-> store]
    ELSE [run |-> Respond(q, api, sql,
                          execute_query(sql, store, connects, old_driver, draw)),
          store |-> execute_query(sql, store, connects, old_driver, draw).store]

\* AIAgent.process_question as one run: the Gateway calls made (gw_log), the
\* synthesized text, the statements handed to execute_query (exec_log), its
\* result, what the caller gets (run), and the store afterwards.
process_question(q, api, store, connects, old_driver, draw) ==
    Orchestrate(q, api, generate_sql_query(get_llm_response(api)),
                store, connects, old_driver, draw)

\* The second chunk of stream_process_question when a query was synthesized
SqlNotice(sql) == T_GeneratedPrefix \o sql \o T_GeneratedSuffix

\* Mutant of AfterSynthesis: the return after the apology is missing
AfterSynthesis_NoReturn(sql, yielded) ==
    IF sql = T_NA
    THEN [chunks |-> Append(yielded, T_Apology \o T_Newline), pc |-> "sql"]
    ELSE [chunks |-> Append(yielded, SqlNotice(sql)), pc |-> "sql"]

\* stream_process_question from the return of _generate_sql_query to its next
\* yield: the apology, after which the generator returns, or the notice with
\* the synthesized text
AfterSynthesis(sql, yielded) ==
    IF sql = T_NA
    THEN [chunks |-> Append(yielded, T_Apology \o T_Newline), pc |-> "apology"]
    ELSE [chunks |-> Append(yielded, SqlNotice(sql)), pc |-> "sql"]

\* The inputs of the direct calls of execute_query
DirectSql ==
    { S_Select, S_SelectLower, S_Insert, S_Update, S_Delete, S_SyntaxError,
      S_MissingTable, S_TwoStatements, S_Drop, S_Surrogate, S_SelectRandom,
      S_InsertOverflow, T_NA }

\* The values random() yields in the model
Draws == {17, 40}

\* The value passed as the draw where random() is not evaluated
AnyDraw == CHOOSE draw \in Draws : TRUE

\* What one execution of the statement can draw: random() is evaluated only
\* by a statement that calls it
DrawsFor(sql_query) ==
    IF Parse(sql_query).kind = "random" THEN Draws ELSE {AnyDraw}

\* The inputs of the direct calls of _format_response
FormatInputs ==
    << [columns |-> <<C_a, C_b>>,
        rows |-> << (C_a :> IntV(1)) @@ (C_b :> IntV(2)) >>],
       [columns |-> <<C_x>>, rows |-> <<>>],
       [columns |-> <<C_a, C_b>>,
        rows |-> << (C_a :> IntV(10)),
                    (C_a :> NullV) @@ (C_b :> TextV(V_ok)),
                    (C_a :> IntV(0 - 3)) @@ (C_b :> IntV(205)) >>],
       [error |-> V_boom],
       [message |-> T_Executed] >>

\* No earlier call of execute_query is on record
NoCall == [made |-> FALSE]

(***************************************************************************)
(* State                                                                   *)
(***************************************************************************)

VARIABLES
    old_driver,     \* whether the process runs on an old driver (fixed)
    agent,          \* "none", "ready" (AIAgent() returned) or "failed" (it raised)
    db,             \* the content of the database file
    connected,      \* whether the last sqlite3.connect succeeded
    pre_db,         \* db before the last step
    op,             \* the operation called last
    question,       \* its question
    gw_log,         \* the outcomes of the Gateway calls it made, in order
    sql_query,      \* what _generate_sql_query returned
    exec_log,       \* the statements it passed to execute_query, in order
    query_result,   \* what execute_query returned to it
    answer,         \* what it returned to its caller, or the exception raised
    chunks,         \* what the generator has yielded so far
    pc,             \* where the generator of stream_process_question stands
    conn_log,       \* the calls its execute_query made on its connection
    prev_call       \* the call of execute_query before the last one, when the
                    \* last one repeated its statement with no operation between

vars ==
    << old_driver, agent, db, connected, pre_db, op, question, gw_log,
       sql_query, exec_log, query_result, answer, chunks, pc, conn_log,
       prev_call >>

Init ==
    /\ old_driver \in BOOLEAN
    /\ connected = TRUE
    /\ agent = "none"
    /\ db \in {EmptyStore, PopulatedStore}
    /\ pre_db = db
    /\ op = "none"
    /\ question = <<>>
    /\ gw_log = <<>>
    /\ sql_query = <<>>
    /\ exec_log = <<>>
    /\ query_result = NoResult
    /\ answer = NoAnswer
    /\ chunks = <<>>
    /\ pc = "none"
    /\ conn_log = <<>>
    /\ prev_call = NoCall

\* AIAgent.__init__: initialize_database, whose exception is re-raised
AIAgentInit ==
    /\ conn_log' = <<>>
    /\ prev_call' = NoCall
    /\ agent = "none"
    /\ \E connects \in BOOLEAN, creates \in BOOLEAN :
         \E i \in {initialize_database(db, connects, creates)} :
             /\ agent' = IF i.kind = "raise" THEN "failed" ELSE "ready"
             /\ db' = i.store
             /\ answer' = IF i.kind = "raise" THEN Exc(i.exc) ELSE NoAnswer
             /\ connected' = connects
    /\ pre_db' = db
    /\ op' = "AIAgent"
    /\ UNCHANGED << old_driver, question, gw_log, sql_query, exec_log, query_result,
                    chunks, pc >>

\* ai_agent.process_question(question)
ProcessQuestion ==
    /\ prev_call' = NoCall
    /\ agent = "ready"
    /\ \E q \in Questions, api \in ApiOutcomes, connects \in BOOLEAN :
       \E draw \in DrawsFor(generate_sql_query(get_llm_response(api))) :
         \E p \in {process_question(q, api, db, connects, old_driver, draw)} :
             /\ InBounds(p.run.sql_query, db)
             /\ connected' = connects
             /\ question' = q
             /\ gw_log' = p.run.gw_log
             /\ sql_query' = p.run.sql_query
             /\ exec_log' = p.run.exec_log
             /\ conn_log' = p.run.conn_log
             /\ query_result' = p.run.query_result
             /\ answer' = p.run.answer
             /\ db' = p.store
    /\ pre_db' = db
    /\ op' = "process_question"
    /\ chunks' = <<>>
    /\ pc' = "none"
    /\ UNCHANGED << old_driver, agent >>

\* agent.stream_process_question(question): the generator is created; none of
\* its code has run
StreamCreate ==
    /\ conn_log' = <<>>
    /\ prev_call' = NoCall
    /\ agent = "ready"
    /\ \E q \in Questions : question' = q
    /\ op' = "stream_process_question"
    /\ pc' = "created"
    /\ chunks' = <<>>
    /\ gw_log' = <<>>
    /\ sql_query' = <<>>
    /\ exec_log' = <<>>
    /\ query_result' = NoResult
    /\ answer' = NoAnswer
    /\ pre_db' = db
    /\ UNCHANGED << old_driver, agent, db, connected >>

\* next() on the generator: its code runs up to the next yield, to its return
\* or to an exception
StreamNext ==
    /\ prev_call' = NoCall
    /\ op = "stream_process_question"
    /\ pre_db' = db
    /\ UNCHANGED << old_driver, agent, op, question >>
    /\ \/ /\ pc = "created"
          /\ chunks' = Append(chunks, T_Thinking)
          /\ pc' = "thinking"
          /\ UNCHANGED << db, connected, conn_log, gw_log, sql_query, exec_log,
                          query_result, answer >>
       \/ /\ pc = "thinking"
          /\ \E api \in ApiOutcomes :
               \E sql \in {generate_sql_query(get_llm_response(api))} :
                   /\ gw_log' = Append(gw_log, api)
                   /\ sql_query' = sql
                   /\ \E y \in {AfterSynthesis(sql, chunks)} :
                        chunks' = y.chunks /\ pc' = y.pc
          /\ UNCHANGED << db, connected, conn_log, exec_log, query_result, answer >>
       \/ /\ pc = "apology"
          /\ pc' = "done"
          /\ UNCHANGED << db, connected, conn_log, gw_log, sql_query, exec_log,
                          query_result, answer, chunks >>
       \/ /\ pc = "sql"
          /\ chunks' = Append(chunks, T_Fetching)
          /\ pc' = "fetching"
          /\ UNCHANGED << db, connected, conn_log, gw_log, sql_query, exec_log,
                          query_result, answer >>
       \/ /\ pc = "fetching"
          /\ InBounds(sql_query, db)
          /\ \E connects \in BOOLEAN, draw \in DrawsFor(sql_query) :
               \E e \in {execute_query(sql_query, db, connects, old_driver,
                                       draw)} :
                   /\ exec_log' = Append(exec_log, sql_query)
                   /\ conn_log' = e.calls
                   /\ connected' = connects
                   /\ query_result' = e.value
                   /\ db' = e.store
                   /\ IF e.kind = "raise"
                      THEN /\ answer' = Exc(e.exc)
                           /\ chunks' = chunks
                           /\ pc' = "raised"
                      ELSE \E formatted_response \in
                                  {format_response(e.value, question)} :
                             /\ answer' = Ret(formatted_response)
                             /\ chunks' = Append(chunks,
                                             formatted_response \o T_Newline)
                             /\ pc' = "answer"
          /\ UNCHANGED << gw_log, sql_query >>
       \/ /\ pc = "answer"
          /\ chunks' = Append(chunks, T_Complete)
          /\ pc' = "complete"
          /\ UNCHANGED << db, connected, conn_log, gw_log, sql_query, exec_log,
                          query_result, answer >>
       \/ /\ pc = "complete"
          /\ pc' = "done"
          /\ UNCHANGED << db, connected, conn_log, gw_log, sql_query, exec_log,
                          query_result, answer, chunks >>

\* execute_query(sql) called on its own
ExecuteQuery ==
    /\ agent = "ready"
    /\ \E sql \in DirectSql, connects \in BOOLEAN :
       \E draw \in DrawsFor(sql) :
         \E e \in {execute_query(sql, db, connects, old_driver, draw)} :
             /\ InBounds(sql, db)
             /\ connected' = connects
             /\ sql_query' = sql
             /\ prev_call' =
                    IF op = "execute_query" /\ sql = sql_query
                    THEN [made |-> TRUE, before |-> pre_db,
                          connected |-> connected, result |-> query_result]
                    ELSE NoCall
             /\ exec_log' = <<sql>>
             /\ conn_log' = e.calls
             /\ query_result' = e.value
             /\ answer' = IF e.kind = "raise" THEN Exc(e.exc) ELSE NoAnswer
             /\ db' = e.store
    /\ pre_db' = db
    /\ op' = "execute_query"
    /\ question' = <<>>
    /\ gw_log' = <<>>
    /\ chunks' = <<>>
    /\ pc' = "none"
    /\ UNCHANGED << old_driver, agent >>

\* agent._format_response(query_result, question) called on its own
FormatResponse ==
    /\ conn_log' = <<>>
    /\ prev_call' = NoCall
    /\ agent = "ready"
    /\ \E i \in 1..Len(FormatInputs), q \in Questions :
         /\ query_result' = FormatInputs[i]
         /\ question' = q
         /\ answer' = Ret(format_response(FormatInputs[i], q))
    /\ pre_db' = db
    /\ op' = "format_response"
    /\ gw_log' = <<>>
    /\ sql_query' = <<>>
    /\ exec_log' = <<>>
    /\ chunks' = <<>>
    /\ pc' = "none"
    /\ UNCHANGED << old_driver, agent, db, connected >>

Next ==
    \/ AIAgentInit
    \/ ProcessQuestion
    \/ StreamCreate
    \/ StreamNext
    \/ ExecuteQuery
    \/ FormatResponse

Spec == Init /\ [][Next]_vars


(***************************************************************************)
(* Vocabulary of the properties                                            *)
(***************************************************************************)

NonWs(t) == {i \in 1..Len(t) : t[i] \notin Whitespace}

Least(S) == CHOOSE i \in S : \A j \in S : i <= j

Greatest(S) == CHOOSE i \in S : \A j \in S : j <= i

\* t without its leading and trailing whitespace
Trimmed(t) ==
    IF NonWs(t) = {} THEN <<>>
    ELSE SubSeq(t, Least(NonWs(t)), Greatest(NonWs(t)))

\* t without its leading whitespace
LeadingTrimmed(t) ==
    IF NonWs(t) = {} THEN <<>> ELSE SubSeq(t, Least(NonWs(t)), Len(t))

SameLetter(a, b) ==
    a = b \/ \E k \in 1..Len(Lowers) : {a, b} = {Lowers[k], Uppers[k]}

\* t starts with word, letter case ignored
BeginsWith(t, word) ==
    Len(t) >= Len(word) /\ \A i \in 1..Len(word) : SameLetter(t[i], word[i])

Verbs ==
    { <<"S","E","L","E","C","T">>, <<"I","N","S","E","R","T">>,
      <<"U","P","D","A","T","E">>, <<"D","E","L","E","T","E">> }

\* sub occurs in t
Contains(t, sub) ==
    \E i \in 1..(Len(t) - Len(sub) + 1) : SubSeq(t, i, i + Len(sub) - 1) = sub

\* The places where sep occurs in t
Occurrences(t, sep) ==
    {i \in 1..(Len(t) - Len(sep) + 1) : SubSeq(t, i, i + Len(sep) - 1) = sep}

\* The pieces of t between the occurrences of sep
RECURSIVE SplitOn(_, _)
SplitOn(t, sep) ==
    IF Occurrences(t, sep) = {} THEN <<t>>
    ELSE <<SubSeq(t, 1, Least(Occurrences(t, sep)) - 1)>>
         \o SplitOn(SubSeq(t, Least(Occurrences(t, sep)) + Len(sep), Len(t)), sep)

\* A synchronous request has run
Asked == op = "process_question"

\* A staged request has been started
Staged == op = "stream_process_question"

\* The staged request has run its synthesis step
StagedSynthesized == Staged /\ gw_log # <<>>

\* The staged request has ended: the generator returned or raised
StagedEnded == Staged /\ pc \in {"done", "raised"}

\* The last step called execute_query
JustExecuted ==
    \/ op = "execute_query"
    \/ Asked /\ exec_log # <<>>
    \/ Staged /\ pc \in {"answer", "raised"}

\* The last step called execute_query on behalf of a request
RequestJustExecuted ==
    \/ Asked /\ exec_log # <<>>
    \/ Staged /\ pc \in {"answer", "raised"}

(***************************************************************************)
(* Properties                                                              *)
(***************************************************************************)

\* C1: whatever the Gateway hands back (a text, N/A, its error sentinel after
\* the remote call raised), the Synthesizer reports "no query producible"
\* ("N/A") when the trimmed response does not start, letter case ignored,
\* with SELECT, INSERT, UPDATE or DELETE; otherwise it returns exactly the
\* trimmed response, which differs from "N/A".
ThmC1 ==
    ((Asked \/ Staged) /\ gw_log # <<>>) =>
        \A t \in {get_llm_response(gw_log[Len(gw_log)]).text} :
            IF \E verb \in Verbs : BeginsWith(Trimmed(t), verb)
            THEN sql_query = Trimmed(t) /\ sql_query # T_NA
            ELSE sql_query = T_NA

\* C1 witness: the Gateway handed back a fenced answer holding a SELECT, and
\* the Synthesizer reported no query.
WitC1 ==
    /\ Asked
    /\ gw_log = <<[kind |-> "text", text |-> S_Fenced]>>
    /\ sql_query = T_NA

\* C2: when the Synthesizer reports no query, process_question returns the
\* fixed apology and execute_query is not called (the store is as before).
ThmC2 ==
    (Asked /\ sql_query = T_NA) =>
        /\ answer.kind = "return"
        /\ answer.value = T_Apology
        /\ exec_log = <<>>
        /\ db = pre_db

\* C2 witness: the Gateway answered N/A and the caller got the apology.
WitC2 ==
    /\ Asked
    /\ gw_log = <<[kind |-> "text", text |-> S_NotAnswerable]>>
    /\ answer.value = T_Apology
    /\ exec_log = <<>>

\* C3 as stated: once the staged form has ended for a question whose
\* synthesis produced a statement, it has yielded exactly five chunks: the
\* thinking notice, a notice holding the statement, the fetching notice, the
\* formatted answer, the completion notice.
CexC3 ==
    (StagedEnded /\ sql_query # T_NA) =>
        /\ Len(chunks) = 5
        /\ chunks[1] = T_Thinking
        /\ Contains(chunks[2], sql_query)
        /\ chunks[3] = T_Fetching
        /\ answer.kind = "return"
        /\ chunks[4] = answer.value \o T_Newline
        /\ chunks[5] = T_Complete

\* C4: when the Synthesizer reports no query, the staged form has yielded the
\* thinking notice and the apology and nothing else, it only returns from
\* there, and execute_query is not called.
ThmC4 ==
    (StagedSynthesized /\ sql_query = T_NA) =>
        /\ pc \in {"apology", "done"}
        /\ chunks = <<T_Thinking, T_Apology \o <<"\n">>>>
        /\ exec_log = <<>>
        /\ db = pre_db

\* C4 witness: a staged request that ended after the apology.
WitC4 ==
    /\ Staged
    /\ pc = "done"
    /\ sql_query = T_NA
    /\ Len(chunks) = 2

\* C5: a call of execute_query that succeeds returns Rows (the column names
\* and one mapping over them per row) exactly when the statement, leading
\* whitespace and letter case ignored, begins with SELECT; any other
\* statement that succeeds returns the status "Query executed successfully."
\* and what it did is the content of the store from then on.
ThmC5 ==
    (JustExecuted /\ answer.kind # "raise" /\ "error" \notin DOMAIN query_result) =>
        IF BeginsWith(LeadingTrimmed(sql_query), <<"S","E","L","E","C","T">>)
        THEN /\ DOMAIN query_result = {"columns", "rows"}
             /\ \A i \in 1..Len(query_result.rows) :
                    DOMAIN query_result.rows[i] =
                        {query_result.columns[k] :
                            k \in 1..Len(query_result.columns)}
        ELSE /\ DOMAIN query_result = {"message"}
             /\ query_result.message = T_Executed
             /\ db = cursor_execute(sql_query, pre_db, old_driver, AnyDraw).store

\* C5 witness: an INSERT succeeded and the store holds its row.
WitC5 ==
    /\ op = "execute_query"
    /\ sql_query = S_Insert
    /\ "message" \in DOMAIN query_result
    /\ Len(db.rows["product_eligibility"])
         = Len(pre_db.rows["product_eligibility"]) + 1

\* C6 as stated: whatever the driver reports for a statement, execute_query
\* returns a Failure and raises nothing.
CexC6 ==
    (op = "execute_query" /\ connected
        /\ cursor_execute(sql_query, pre_db, old_driver, AnyDraw).kind # "ok") =>
        /\ answer.kind # "raise"
        /\ "error" \in DOMAIN query_result

\* C7 as stated: process_question returns a string and raises nothing,
\* whatever the Gateway and the store do.
CexC7 == Asked => answer.kind = "return"


\* A Rows result with at least one row has just been formatted
FormattedRows ==
    /\ op \in {"format_response", "process_question"}
    /\ answer.kind = "return"
    /\ DOMAIN query_result = {"columns", "rows"}
    /\ query_result.rows # <<>>

\* The cell of a row under a column: the string form of the value, or N/A for
\* a missing key
Cell(row, col) == IF col \in DOMAIN row THEN PyStr(row[col]) ELSE <<"N","/","A">>

\* lines are a header of the column names joined by " | ", a line of dashes,
\* and one line per row, in order, of its cells joined by " | "
IsTable(lines, columns, rows) ==
    /\ Len(lines) = 2 + Len(rows)
    /\ SplitOn(lines[1], <<" ","|"," ">>) = columns
    /\ lines[2] # <<>>
    /\ \A i \in 1..Len(lines[2]) : lines[2][i] = "-"
    /\ \A r \in 1..Len(rows) :
         \A cells \in {SplitOn(lines[2 + r], <<" ","|"," ">>)} :
            /\ Len(cells) = Len(columns)
            /\ \A k \in 1..Len(columns) : cells[k] = Cell(rows[r], columns[k])

\* C8 as stated: for a Rows result with at least one row the output is the
\* header line, the line of dashes and the row lines, with nothing before or
\* after them.
CexC8 ==
    FormattedRows =>
        IsTable(SplitOn(answer.value, <<"\n">>),
                query_result.columns, query_result.rows)

\* "':"
X_HereSuffix ==
    <<"'",":">>

\* "a | b"
X_Header ==
    <<"a"," ","|"," ","b">>

\* "1 | 2"
X_Row ==
    <<"1"," ","|"," ","2">>

\* C8 amended: for a Rows result with at least one row the output is the line
\* "Here are the results for '<question>':", an empty line, and then the header
\* line, the line of dashes and the row lines, with nothing after them.
ThmC8 ==
    FormattedRows =>
        \A lines \in {SplitOn(answer.value, <<"\n">>)} :
            /\ Len(lines) >= 2
            /\ lines[1] = T_HerePrefix \o question \o X_HereSuffix
            /\ lines[2] = <<>>
            /\ IsTable(SubSeq(lines, 3, Len(lines)),
                       query_result.columns, query_result.rows)

\* C8 witness: columns [a, b] and the single row {a: 1, b: 2} give five lines,
\* the third "a | b" and the last "1 | 2".
WitC8 ==
    /\ op = "format_response"
    /\ DOMAIN query_result = {"columns", "rows"}
    /\ query_result.columns = <<C_a, C_b>>
    /\ Len(query_result.rows) = 1
    /\ Len(SplitOn(answer.value, <<"\n">>)) = 5
    /\ SplitOn(answer.value, <<"\n">>)[3] = X_Header
    /\ SplitOn(answer.value, <<"\n">>)[5] = X_Row

ThmC10 ==
    /\ Asked => (Len(gw_log) = 1 /\ Len(exec_log) <= 1)
    /\ Staged => (Len(gw_log) <= 1 /\ Len(exec_log) <= 1)
    /\ StagedEnded => Len(gw_log) = 1

\* C10 witness: a staged request that ended after one Gateway call and one
\* execute_query call.
WitC10 ==
    /\ Staged
    /\ pc = "done"
    /\ Len(gw_log) = 1
    /\ Len(exec_log) = 1


(***************************************************************************)
(* C11                                                                     *)
(***************************************************************************)

\* The store holds the three tables with the columns and types of create_tables
HasSchema(store) == store.schema = TableColumns

\* C11: when AIAgent() has been called and initialize_database could not
\* create the schema, because the connection to the store could not be opened
\* or because creating the tables failed, the failure was raised out of
\* AIAgent(); and once it was raised, no question is passed to the pipeline
\* (no operation follows the failed construction).
CexC11 ==
    /\ (op = "AIAgent" /\ (~connected \/ ~HasSchema(db))) =>
            (agent = "failed" /\ answer.kind = "raise")
    /\ agent = "failed" => op = "AIAgent"

(***************************************************************************)
(* C12                                                                     *)
(***************************************************************************)

\* C12: a question answered through the pipeline (synchronous or staged),
\* whatever the Gateway responded, leaves the schema of the store as it was:
\* the same tables with the same columns and types.  A store that held the
\* three tables product_eligibility, product_total_sales and
\* product_ad_sales before the question holds them after it; only rows may
\* have changed.
ThmC12 ==
    (Asked \/ Staged) =>
        /\ db.schema = pre_db.schema
        /\ DOMAIN db.rows = DOMAIN pre_db.rows
        /\ HasSchema(pre_db) => HasSchema(db)

\* C12 witness: the Gateway answered "DROP TABLE product_ad_sales" to a
\* question on a store that holds the three tables, and it still holds them.
WitC12 ==
    /\ Asked
    /\ gw_log = << [kind |-> "text", text |-> S_Drop] >>
    /\ HasSchema(pre_db)
    /\ HasSchema(db)

\* C12 witness of a write: a question changed rows and the schema stands
WitC12Write ==
    /\ Asked
    /\ HasSchema(pre_db)
    /\ db.rows # pre_db.rows
    /\ HasSchema(db)


(***************************************************************************)
(* C13                                                                     *)
(***************************************************************************)

\* The value is a Rows result
IsRows(value) == DOMAIN value = {"columns", "rows"}

\* execute_query has just been called a second time with the statement of the
\* call before it, a statement that begins with SELECT, nothing having run
\* between the two calls; the first call returned Rows and the second opened
\* its connection
SelectedTwice ==
    /\ op = "execute_query"
    /\ prev_call.made
    /\ BeginsWith(LeadingTrimmed(sql_query), <<"S","E","L","E","C","T">>)
    /\ IsRows(prev_call.result)
    /\ connected

\* The second call returned what the first returned, and the first call left
\* the store as it found it
SameRows ==
    /\ IsRows(query_result)
    /\ query_result.columns = prev_call.result.columns
    /\ query_result.rows = prev_call.result.rows
    /\ pre_db = prev_call.before

\* The statement calls the engine's random()
CallsRandom(text) == Contains(Upper(text), <<"R","A","N","D","O","M","(">>)

\* C13 as stated: two calls of execute_query with the same statement
\* beginning with SELECT, the tables unchanged in between, return identical
\* Rows (same columns, same rows in the same order), and the first call does
\* not change what the second sees.
CexC13 == SelectedTwice => SameRows

\* C13 amended: the same, for a statement whose result depends on nothing but
\* the tables (it does not call random()).
ThmC13 == (SelectedTwice /\ ~CallsRandom(sql_query)) => SameRows

\* C13 witness: the rows of product_eligibility were selected twice in a row
\* from a table that holds a row, and the second call returned the Rows of
\* the first.
WitC13 ==
    /\ SelectedTwice
    /\ sql_query = S_Select
    /\ Len(query_result.rows) >= 1
    /\ SameRows


(***************************************************************************)
(* C14                                                                     *)
(***************************************************************************)

\* How many times the call occurs among the calls
Count(calls, call) == Cardinality({i \in 1..Len(calls) : calls[i] = call})

\* The connection after the calls: whether it is open and whether a
\* transaction is open on it.  began: whether the driver began a transaction
\* for the statement that execute ran.  commit ends the transaction, close
\* rolls it back.
RECURSIVE Connection(_, _)
Connection(calls, began) ==
    IF calls = <<>> THEN [open |-> FALSE, in_txn |-> FALSE]
    ELSE LET before == Connection(SubSeq(calls, 1, Len(calls) - 1), began)
             call == calls[Len(calls)]
         IN  CASE call = "connect" -> [open |-> TRUE, in_txn |-> FALSE]
               [] call = "execute" -> [before EXCEPT !.in_txn = began]
               [] call = "commit" -> [before EXCEPT !.in_txn = FALSE]
               [] call = "close" -> [open |-> FALSE, in_txn |-> FALSE]
               [] OTHER -> before

\* Whether the driver began a transaction for the statement just executed
Began == cursor_execute(sql_query, pre_db, old_driver, AnyDraw).in_txn

\* C14: a call of execute_query that gets a connection opens exactly one,
\* first of all, and closes it, last of all, whether it returns Rows, the
\* status message or a Failure (or raises); when it returns, no connection is
\* open and no transaction is open, so none spans two calls.  A call that
\* gets no connection has nothing to close.
ThmC14 ==
    JustExecuted =>
        IF connected
        THEN /\ conn_log[1] = "connect"
             /\ conn_log[Len(conn_log)] = "close"
             /\ Count(conn_log, "connect") = 1
             /\ Count(conn_log, "close") = 1
             /\ ~Connection(conn_log, Began).open
             /\ ~Connection(conn_log, Began).in_txn
        ELSE conn_log = <<>>

\* C14 witness: a call that returned a Failure for a statement the engine
\* rejected, with its connection opened and closed.
WitC14 ==
    /\ op = "execute_query"
    /\ connected
    /\ "error" \in DOMAIN query_result
    /\ conn_log = << "connect", "cursor", "execute", "close" >>

\* C14 witness on the Rows path
WitC14Rows ==
    /\ op = "execute_query"
    /\ IsRows(query_result)
    /\ conn_log = << "connect", "cursor", "execute", "fetchall", "close" >>

\* C14 witness on the StatusMessage path: the transaction the driver began
\* for the INSERT was ended by commit before close
WitC14Status ==
    /\ op = "execute_query"
    /\ sql_query = S_Insert
    /\ "message" \in DOMAIN query_result
    /\ Began
    /\ conn_log = << "connect", "cursor", "execute", "commit", "close" >>


(***************************************************************************)
(* C15                                                                     *)
(***************************************************************************)

\* The synchronous form on the inputs of the staged request: its question,
\* the Gateway response it got, the store as it was before its execute_query
\* call, and the same outcome of sqlite3.connect
Sync ==
    process_question(question, gw_log[1], pre_db, connected, old_driver,
                     AnyDraw)

\* The staged request and the synchronous form made the same Gateway and
\* Store calls in the same order, with the same effect on the store
SameCalls ==
    /\ gw_log = Sync.run.gw_log
    /\ exec_log = Sync.run.exec_log
    /\ conn_log = Sync.run.conn_log
    /\ db = Sync.store

\* The staged request has passed its execute_query call, which returned or
\* raised
StagedExecuted == Staged /\ pc \in {"answer", "raised"}

\* C15 as stated: when a query was synthesized, the fourth staged chunk is
\* the string process_question returns for the same question, Gateway
\* response and store, followed by a newline; when none was synthesized, the
\* second staged chunk is the apology process_question returns, followed by a
\* newline; and both forms make the same Gateway and Store calls in the same
\* order.
CexC15 ==
    /\ (Staged /\ pc = "apology") =>
            /\ Sync.run.answer.kind = "return"
            /\ Len(chunks) = 2
            /\ chunks[2] = Sync.run.answer.value \o T_Newline
            /\ SameCalls
    /\ StagedExecuted =>
            /\ Sync.run.answer.kind = "return"
            /\ Len(chunks) = 4
            /\ chunks[4] = Sync.run.answer.value \o T_Newline
            /\ SameCalls

\* Where execute_query returns, the two forms agree as C15 says; where it
\* raises, both forms raise the same exception after the same calls, and the
\* staged form has yielded three chunks.
AgreeC15 ==
    /\ (Staged /\ pc = "apology") =>
            /\ Sync.run.answer.kind = "return"
            /\ Len(chunks) = 2
            /\ chunks[2] = Sync.run.answer.value \o T_Newline
            /\ SameCalls
    /\ (Staged /\ pc = "answer") =>
            /\ Sync.run.answer.kind = "return"
            /\ Len(chunks) = 4
            /\ chunks[4] = Sync.run.answer.value \o T_Newline
            /\ SameCalls
    /\ (Staged /\ pc = "raised") =>
            /\ Sync.run.answer = answer
            /\ answer.kind = "raise"
            /\ Len(chunks) = 3
            /\ SameCalls


(***************************************************************************)
(* C16                                                                     *)
(***************************************************************************)

\* The statement, leading whitespace and letter case ignored, begins with
\* INSERT, UPDATE or DELETE
WriteShaped(text) ==
    \E verb \in Verbs \ { <<"S","E","L","E","C","T">> } :
        BeginsWith(LeadingTrimmed(text), verb)

\* The last execute_query call returned a Failure for a write-shaped statement
WriteFailed ==
    /\ JustExecuted
    /\ WriteShaped(sql_query)
    /\ answer.kind # "raise"
    /\ "error" \in DOMAIN query_result

\* C16: when execute_query returns a Failure for a statement that begins with
\* INSERT, UPDATE or DELETE, it has committed nothing: no commit was called on
\* its connection, and the store, which is what every later call reads, is
\* what it was before the call, table by table and row by row.
ThmC16 ==
    WriteFailed =>
        /\ Count(conn_log, "commit") = 0
        /\ db = pre_db

\* C16 witness: an INSERT of two rows failed on the second one ("integer
\* overflow") after the driver had begun a transaction for it; the table
\* holds the row it held before, and no other.
WitC16 ==
    /\ op = "execute_query"
    /\ sql_query = S_InsertOverflow
    /\ query_result = [error |-> M_IntegerOverflow]
    /\ Began
    /\ db.rows["product_eligibility"] = <<SampleRow>>
    /\ db = pre_db

====
